---- MODULE Spec2Model ----
(***************************************************************************)
(* Model of the pattern-3 sub-sequence searchers: the Two-Way searcher of  *)
(* src/slices/slice.rs (preprocessing, forward and reverse search), the    *)
(* empty-pattern searchers of src/slices/slice.rs and src/pattern.rs, and  *)
(* the enumeration protocol of the Searcher / ReverseSearcher docs.        *)
(*                                                                         *)
(* Indices are 0-based as in the source; at(s, i) reads element i of a     *)
(* TLA+ sequence.  A 64-bit word used as a bit set (FastSkipByteset) is    *)
(* the set of its set bit positions, a subset of 0..63.                    *)
(***************************************************************************)
EXTENDS Integers, Sequences, FiniteSets, TLC

\* ------------------------------------------------------------------ bounds
\* Longest hay and longest needle of the enumeration sessions.
MaxHayLen == 5
MaxNeedleLen == 4
\* Longest hay and longest needle of the arbitrary call sequences.
MaxAnyHayLen == 4
MaxAnyNeedleLen == 3

\* Element values.  97 ('a') and 98 ('b') fall in different byteset buckets.
Elem == {97, 98}

\* Element types the generic code is instantiated at:
\*   "u8"  : Ord, byteset_mask = 1 << (b & 63)
\*   "ord" : Ord, default byteset_mask (!0)
\*   "eq"  : PartialEq only: default maximal_suffix, default byteset_mask
ElemKinds == {"u8", "ord", "eq"}

\* usize::MAX, used only as the "long period" sentinel in memory/memory_back.
\* No arithmetic is done on it, so its width is immaterial; it only has to
\* exceed every needle length.
usize_MAX == 2147483647

\* ----------------------------------------------------------------- helpers
at(s, i) == s[i + 1]

SeqsUpTo(S, n) == UNION {[1..k -> S] : k \in 0..n}

Max2(a, b) == IF a >= b THEN a ELSE b
Min2(a, b) == IF a <= b THEN a ELSE b

\* Option<Range<usize>>
None == [some |-> FALSE, start |-> 0, end |-> 0]
Some(a, b) == [some |-> TRUE, start |-> a, end |-> b]

\* Ord::cmp on elements
cmp(a, b) == IF a = b THEN "Equal" ELSE IF a < b THEN "Less" ELSE "Greater"

\* --------------------------------------------------------- fast-skip byteset
byteset_mask(kind, x) == IF kind = "u8" THEN {x % 64} ELSE 0..63

\* Faulty variant of byteset_create: leaves the first element out.
byteset_create_tail(kind, needle) ==
    UNION {byteset_mask(kind, at(needle, i)) : i \in 1..(Len(needle) - 1)}

byteset_create(kind, needle) ==
    UNION {byteset_mask(kind, at(needle, i)) : i \in 0..(Len(needle) - 1)}

byteset_contains(kind, byteset, item) ==
    (byteset \cap byteset_mask(kind, item)) # {}

\* ----------------------------------------------------------- maximal suffix
RECURSIVE maximal_suffix_loop(_, _, _, _, _, _)
maximal_suffix_loop(arr, order, left, right, offset, period) ==
    IF right + offset >= Len(arr)
    THEN <<left, period>>
    ELSE LET a == at(arr, right + offset)
             b == at(arr, left + offset)
             o == cmp(a, b)
         IN  IF o = "Equal"
             THEN IF offset + 1 = period
                  THEN maximal_suffix_loop(arr, order, left, right + offset + 1, 0, period)
                  ELSE maximal_suffix_loop(arr, order, left, right, offset + 1, period)
             ELSE IF o = order
             THEN maximal_suffix_loop(arr, order, left, right + offset + 1, 0,
                                      (right + offset + 1) - left)
             ELSE maximal_suffix_loop(arr, order, right, right + 1, 0, 1)

\* Faulty variant of maximal_suffix: on a smaller suffix the period is taken
\* from the start of the array (right) and not from left (right - left).
RECURSIVE maximal_suffix_loop_abs(_, _, _, _, _, _)
maximal_suffix_loop_abs(arr, order, left, right, offset, period) ==
    IF right + offset >= Len(arr)
    THEN <<left, period>>
    ELSE LET a == at(arr, right + offset)
             b == at(arr, left + offset)
             o == cmp(a, b)
         IN  IF o = "Equal"
             THEN IF offset + 1 = period
                  THEN maximal_suffix_loop_abs(arr, order, left, right + offset + 1, 0, period)
                  ELSE maximal_suffix_loop_abs(arr, order, left, right, offset + 1, period)
             ELSE IF o = order
             THEN maximal_suffix_loop_abs(arr, order, left, right + offset + 1, 0,
                                          right + offset + 1)
             ELSE maximal_suffix_loop_abs(arr, order, right, right + 1, 0, 1)

maximal_suffix_abs(kind, arr, order) ==
    IF kind = "eq" THEN <<0, 1>> ELSE maximal_suffix_loop_abs(arr, order, 0, 1, 0, 1)

maximal_suffix(kind, arr, order) ==
    IF kind = "eq" THEN <<0, 1>> ELSE maximal_suffix_loop(arr, order, 0, 1, 0, 1)

RECURSIVE reverse_maximal_suffix_loop(_, _, _, _, _, _, _)
reverse_maximal_suffix_loop(arr, known_period, order, left, right, offset, period) ==
    LET n == Len(arr) IN
    IF right + offset >= n
    THEN left
    ELSE LET a == at(arr, n - (1 + right + offset))
             b == at(arr, n - (1 + left + offset))
             o == cmp(a, b)
             st == IF o = "Equal"
                   THEN IF offset + 1 = period
                        THEN [left |-> left, right |-> right + offset + 1,
                              offset |-> 0, period |-> period]
                        ELSE [left |-> left, right |-> right,
                              offset |-> offset + 1, period |-> period]
                   ELSE IF o = order
                   THEN [left |-> left, right |-> right + offset + 1,
                         offset |-> 0, period |-> (right + offset + 1) - left]
                   ELSE [left |-> right, right |-> right + 1,
                         offset |-> 0, period |-> 1]
         IN  IF st.period = known_period
             THEN st.left
             ELSE reverse_maximal_suffix_loop(arr, known_period, order,
                                              st.left, st.right, st.offset, st.period)

reverse_maximal_suffix(kind, arr, known_period, order) ==
    IF kind = "eq" THEN 0
    ELSE reverse_maximal_suffix_loop(arr, known_period, order, 0, 1, 0, 1)

\* Faulty variant of max_pair: keeps the smaller of the two maximal suffixes.
min_pair(p, q) ==
    IF p[1] > q[1] \/ (p[1] = q[1] /\ p[2] >= q[2]) THEN q ELSE p

\* max on (usize, usize): lexicographic
max_pair(p, q) ==
    IF p[1] > q[1] \/ (p[1] = q[1] /\ p[2] >= q[2]) THEN p ELSE q

\* needle[lo..hi] as a sequence (0-based, half open)
slice(s, lo, hi) == [k \in 1..(hi - lo) |-> s[lo + k]]

\* Faulty variant of crit_pos_back_short: takes the smaller of the two reverse
\* maximal suffixes.
crit_pos_back_short_min(kind, needle, period) ==
    Len(needle) - Min2(
        reverse_maximal_suffix(kind, needle, period, "Greater"),
        reverse_maximal_suffix(kind, needle, period, "Less"))

\* The critical position of the reversed needle, short-period case of new().
crit_pos_back_short(kind, needle, period) ==
    Len(needle) - Max2(
        reverse_maximal_suffix(kind, needle, period, "Greater"),
        reverse_maximal_suffix(kind, needle, period, "Less"))

\* ------------------------------------------------------ TwoWaySearcher::new
\* A slice index past the needle's end panics; impl "Panic" records that.
new(kind, needle) ==
    LET n == Len(needle)
        res_lt == maximal_suffix(kind, needle, "Less")
        res_gt == maximal_suffix(kind, needle, "Greater")
        cp == max_pair(res_lt, res_gt)
        crit_pos == cp[1]
        period == cp[2]
        byteset == byteset_create(kind, needle)
    IN  IF period + crit_pos > n
        THEN [impl |-> "Panic", elem |-> kind, needle |-> needle, crit_pos |-> crit_pos, crit_pos_back |-> 0,
              period |-> period, byteset |-> byteset,
              memory |-> 0, memory_back |-> 0,
              consumed_start |-> FALSE, consumed_end |-> FALSE]
        ELSE IF slice(needle, 0, crit_pos) = slice(needle, period, period + crit_pos)
        THEN [impl |-> "TwoWay", elem |-> kind, needle |-> needle, crit_pos |-> crit_pos,
              crit_pos_back |-> crit_pos_back_short(kind, needle, period),
              period |-> period, byteset |-> byteset,
              memory |-> 0, memory_back |-> n,
              consumed_start |-> FALSE, consumed_end |-> FALSE]
        ELSE [impl |-> "TwoWay", elem |-> kind, needle |-> needle, crit_pos |-> crit_pos,
              crit_pos_back |-> crit_pos,
              period |-> Max2(crit_pos, n - crit_pos) + 1, byteset |-> byteset,
              memory |-> usize_MAX, memory_back |-> usize_MAX,
              consumed_start |-> FALSE, consumed_end |-> FALSE]

\* ------------------------------------------------- TwoWaySearcher::do_next
\* First index i in lo..hi-1 (ascending) with needle[i] != hay[base + i], or -1.
first_mismatch_up(needle, hay, base, lo, hi) ==
    LET bad == {i \in lo..(hi - 1) : at(needle, i) # at(hay, base + i)}
    IN  IF bad = {} THEN -1 ELSE CHOOSE i \in bad : \A j \in bad : i <= j

\* Faulty variant of first_mismatch_down: compares nothing.
first_mismatch_down_none(needle, hay, base, lo, hi) == -1

\* First index i in (lo..hi-1).rev() (descending) with a mismatch, or -1.
first_mismatch_down(needle, hay, base, lo, hi) ==
    LET bad == {i \in lo..(hi - 1) : at(needle, i) # at(hay, base + i)}
    IN  IF bad = {} THEN -1 ELSE CHOOSE i \in bad : \A j \in bad : i >= j

\* The 'search loop of do_next::<P>; long = P::IS_LONG_PERIOD.  The loop
\* variables are position and self.memory; the result is the returned
\* Option and the value self.memory is left with.
RECURSIVE do_next_loop(_, _, _, _, _, _)
do_next_loop(long, self, hay, range, position, memory) ==
    LET needle == self.needle
        n == Len(needle)
        i == position + (n - 1)
    IN  IF i >= range.end
        THEN [out |-> None, memory |-> memory]
        ELSE IF ~byteset_contains(self.elem, self.byteset, at(hay, i))
        THEN do_next_loop(long, self, hay, range, position + n,
                          IF long THEN memory ELSE 0)
        ELSE LET rstart == IF long THEN self.crit_pos
                           ELSE Max2(self.crit_pos, memory)
                 r == first_mismatch_up(needle, hay, position, rstart, n)
             IN  IF r # -1
                 THEN do_next_loop(long, self, hay, range,
                                   position + (r - self.crit_pos + 1),
                                   IF long THEN memory ELSE 0)
                 ELSE LET lstart == IF long THEN 0 ELSE memory
                          l == first_mismatch_down(needle, hay, position,
                                                   lstart, self.crit_pos)
                      IN  IF l # -1
                          THEN do_next_loop(long, self, hay, range,
                                            position + self.period,
                                            IF long THEN memory ELSE n - self.period)
                          ELSE [out |-> Some(position, position + n),
                                memory |-> IF long THEN memory ELSE 0]

\* Faulty variant of do_next: starts every call with memory 0.
do_next_fresh_memory(long, self, hay, range) ==
    do_next_loop(long, self, hay, range, range.start, 0)

\* Faulty variant of do_next: the cursor starts at the hay's start, not the span's.
do_next_from_hay_start(long, self, hay, range) ==
    do_next_loop(long, self, hay, range, 0, self.memory)

\* Faulty variant of do_next: a match leaves memory at needle.len() - period,
\* the setting for overlapping matches.
do_next_overlapping(long, self, hay, range) ==
    LET r == do_next_loop(long, self, hay, range, range.start, self.memory)
    IN  IF r.out.some /\ ~long
        THEN [r EXCEPT !.memory = Len(self.needle) - self.period]
        ELSE r

do_next(long, self, hay, range) ==
    do_next_loop(long, self, hay, range, range.start, self.memory)

\* Faulty variant of TwoWay_next: a forward call also resets the reverse
\* memory.
TwoWay_next_resets_back(self, hay, range) ==
    LET r == IF self.memory # usize_MAX
             THEN do_next(FALSE, self, hay, range)
             ELSE do_next(TRUE, self, hay, range)
    IN  [out |-> r.out,
         self |-> [self EXCEPT !.memory = r.memory,
                               !.memory_back = Len(self.needle)]]

\* TwoWaySearcher::next: dispatch on the long-period sentinel.
TwoWay_next(self, hay, range) ==
    LET r == IF self.memory # usize_MAX
             THEN do_next(FALSE, self, hay, range)
             ELSE do_next(TRUE, self, hay, range)
    IN  [out |-> r.out, self |-> [self EXCEPT !.memory = r.memory]]

\* -------------------------------------------- TwoWaySearcher::do_next_back
RECURSIVE do_next_back_loop(_, _, _, _, _, _)
do_next_back_loop(long, self, hay, range, end, memory_back) ==
    LET needle == self.needle
        n == Len(needle)
    IN  IF n + range.start > end
        THEN [out |-> None, memory_back |-> memory_back]
        ELSE IF ~byteset_contains(self.elem, self.byteset, at(hay, end - n))
        THEN do_next_back_loop(long, self, hay, range, end - n,
                               IF long THEN memory_back ELSE n)
        ELSE LET crit == IF long THEN self.crit_pos_back
                         ELSE Min2(self.crit_pos_back, memory_back)
                 l == first_mismatch_down(needle, hay, end - n, 0, crit)
             IN  IF l # -1
                 THEN do_next_back_loop(long, self, hay, range,
                                        end - (self.crit_pos_back - l),
                                        IF long THEN memory_back ELSE n)
                 ELSE LET needle_end == IF long THEN n ELSE memory_back
                          r == first_mismatch_up(needle, hay, end - n,
                                                 self.crit_pos_back, needle_end)
                      IN  IF r # -1
                          THEN do_next_back_loop(long, self, hay, range,
                                                 end - self.period,
                                                 IF long THEN memory_back
                                                 ELSE self.period)
                          ELSE [out |-> Some(end - n, end),
                                memory_back |-> IF long THEN memory_back ELSE n]

\* Faulty variant of do_next_back: the cursor starts at the hay's end, not the span's.
do_next_back_from_hay_end(long, self, hay, range) ==
    do_next_back_loop(long, self, hay, range, Len(hay), self.memory_back)

do_next_back(long, self, hay, range) ==
    do_next_back_loop(long, self, hay, range, range.end, self.memory_back)

\* TwoWaySearcher::next_back
TwoWay_next_back(self, hay, range) ==
    LET r == IF self.memory # usize_MAX
             THEN do_next_back(FALSE, self, hay, range)
             ELSE do_next_back(TRUE, self, hay, range)
    IN  [out |-> r.out, self |-> [self EXCEPT !.memory_back = r.memory_back]]

\* ----------------------------------------- the search loops, step by step
\* Faulty variant of do_next_iter: a mismatch in the left part advances the
\* cursor by one element and forgets the matched prefix.
do_next_iter_step_one(long, self, hay, range, position, memory) ==
    LET needle == self.needle
        n == Len(needle)
        i == position + (n - 1)
        it == [returns |-> FALSE, out |-> None, position |-> position,
               memory |-> memory, hay_reads |-> {}, needle_reads |-> {},
               cmps |-> 0, skip |-> FALSE]
    IN  IF i >= range.end
        THEN [it EXCEPT !.returns = TRUE]
        ELSE IF ~byteset_contains(self.elem, self.byteset, at(hay, i))
        THEN [it EXCEPT !.position = position + n,
                        !.memory = IF long THEN memory ELSE 0,
                        !.hay_reads = {i}, !.skip = TRUE]
        ELSE LET rstart == IF long THEN self.crit_pos
                           ELSE Max2(self.crit_pos, memory)
                 r == first_mismatch_up(needle, hay, position, rstart, n)
                 rread == IF r # -1 THEN rstart..r ELSE rstart..(n - 1)
             IN  IF r # -1
                 THEN [it EXCEPT !.position = position + (r - self.crit_pos + 1),
                                 !.memory = IF long THEN memory ELSE 0,
                                 !.hay_reads = {i} \cup {position + k : k \in rread},
                                 !.needle_reads = rread,
                                 !.cmps = Cardinality(rread)]
                 ELSE LET lstart == IF long THEN 0 ELSE memory
                          l == first_mismatch_down(needle, hay, position,
                                                   lstart, self.crit_pos)
                          lread == IF l # -1 THEN l..(self.crit_pos - 1)
                                   ELSE lstart..(self.crit_pos - 1)
                          read == rread \cup lread
                      IN  IF l # -1
                          THEN [it EXCEPT
                                  !.position = position + 1,
                                  !.memory = IF long THEN memory ELSE 0,
                                  !.hay_reads = {i} \cup {position + k : k \in read},
                                  !.needle_reads = read,
                                  !.cmps = Cardinality(rread) + Cardinality(lread)]
                          ELSE [it EXCEPT
                                  !.returns = TRUE,
                                  !.out = Some(position, position + n),
                                  !.memory = IF long THEN memory ELSE 0,
                                  !.hay_reads = {i} \cup {position + k : k \in read},
                                  !.needle_reads = read,
                                  !.cmps = Cardinality(rread) + Cardinality(lread)]

\* Faulty variant of do_next_iter: a mismatch in the right part advances the
\* cursor to the mismatch, not past it.
do_next_iter_short_shift(long, self, hay, range, position, memory) ==
    LET needle == self.needle
        n == Len(needle)
        i == position + (n - 1)
        it == [returns |-> FALSE, out |-> None, position |-> position,
               memory |-> memory, hay_reads |-> {}, needle_reads |-> {},
               cmps |-> 0, skip |-> FALSE]
    IN  IF i >= range.end
        THEN [it EXCEPT !.returns = TRUE]
        ELSE IF ~byteset_contains(self.elem, self.byteset, at(hay, i))
        THEN [it EXCEPT !.position = position + n,
                        !.memory = IF long THEN memory ELSE 0,
                        !.hay_reads = {i}, !.skip = TRUE]
        ELSE LET rstart == IF long THEN self.crit_pos
                           ELSE Max2(self.crit_pos, memory)
                 r == first_mismatch_up(needle, hay, position, rstart, n)
                 rread == IF r # -1 THEN rstart..r ELSE rstart..(n - 1)
             IN  IF r # -1
                 THEN [it EXCEPT !.position = position + (r - self.crit_pos),
                                 !.memory = IF long THEN memory ELSE 0,
                                 !.hay_reads = {i} \cup {position + k : k \in rread},
                                 !.needle_reads = rread,
                                 !.cmps = Cardinality(rread)]
                 ELSE LET lstart == IF long THEN 0 ELSE memory
                          l == first_mismatch_down(needle, hay, position,
                                                   lstart, self.crit_pos)
                          lread == IF l # -1 THEN l..(self.crit_pos - 1)
                                   ELSE lstart..(self.crit_pos - 1)
                          read == rread \cup lread
                      IN  IF l # -1
                          THEN [it EXCEPT
                                  !.position = position + self.period,
                                  !.memory = IF long THEN memory
                                             ELSE n - self.period,
                                  !.hay_reads = {i} \cup {position + k : k \in read},
                                  !.needle_reads = read,
                                  !.cmps = Cardinality(rread) + Cardinality(lread)]
                          ELSE [it EXCEPT
                                  !.returns = TRUE,
                                  !.out = Some(position, position + n),
                                  !.memory = IF long THEN memory ELSE 0,
                                  !.hay_reads = {i} \cup {position + k : k \in read},
                                  !.needle_reads = read,
                                  !.cmps = Cardinality(rread) + Cardinality(lread)]

\* One iteration of the 'search loop of do_next::<P>, started with the loop
\* variables position and self.memory.  It records what the iteration does:
\* the hay and needle indices it reads through get_unchecked, the number of
\* element comparisons (needle element against hay element), whether it
\* returns, and the values it leaves in position and self.memory.
do_next_iter(long, self, hay, range, position, memory) ==
    LET needle == self.needle
        n == Len(needle)
        i == position + (n - 1)
        it == [returns |-> FALSE, out |-> None, position |-> position,
               memory |-> memory, hay_reads |-> {}, needle_reads |-> {},
               cmps |-> 0, skip |-> FALSE]
    IN  IF i >= range.end
        THEN [it EXCEPT !.returns = TRUE]
        ELSE IF ~byteset_contains(self.elem, self.byteset, at(hay, i))
        THEN [it EXCEPT !.position = position + n,
                        !.memory = IF long THEN memory ELSE 0,
                        !.hay_reads = {i}, !.skip = TRUE]
        ELSE LET rstart == IF long THEN self.crit_pos
                           ELSE Max2(self.crit_pos, memory)
                 r == first_mismatch_up(needle, hay, position, rstart, n)
                 rread == IF r # -1 THEN rstart..r ELSE rstart..(n - 1)
             IN  IF r # -1
                 THEN [it EXCEPT !.position = position + (r - self.crit_pos + 1),
                                 !.memory = IF long THEN memory ELSE 0,
                                 !.hay_reads = {i} \cup {position + k : k \in rread},
                                 !.needle_reads = rread,
                                 !.cmps = Cardinality(rread)]
                 ELSE LET lstart == IF long THEN 0 ELSE memory
                          l == first_mismatch_down(needle, hay, position,
                                                   lstart, self.crit_pos)
                          lread == IF l # -1 THEN l..(self.crit_pos - 1)
                                   ELSE lstart..(self.crit_pos - 1)
                          read == rread \cup lread
                      IN  IF l # -1
                          THEN [it EXCEPT
                                  !.position = position + self.period,
                                  !.memory = IF long THEN memory
                                             ELSE n - self.period,
                                  !.hay_reads = {i} \cup {position + k : k \in read},
                                  !.needle_reads = read,
                                  !.cmps = Cardinality(rread) + Cardinality(lread)]
                          ELSE [it EXCEPT
                                  !.returns = TRUE,
                                  !.out = Some(position, position + n),
                                  !.memory = IF long THEN memory ELSE 0,
                                  !.hay_reads = {i} \cup {position + k : k \in read},
                                  !.needle_reads = read,
                                  !.cmps = Cardinality(rread) + Cardinality(lread)]

\* The iterations of one do_next call, in order: each entry is the iteration
\* started at (position, memory) together with those starting values.
RECURSIVE do_next_run(_, _, _, _, _, _)
do_next_run(long, self, hay, range, position, memory) ==
    LET it == do_next_iter(long, self, hay, range, position, memory)
        entry == [at |-> position, mem |-> memory, it |-> it]
    IN  IF it.returns \/ it.position <= position
        THEN <<entry>>
        ELSE <<entry>> \o do_next_run(long, self, hay, range,
                                      it.position, it.memory)

\* The iterations of TwoWaySearcher::next on a span.
TwoWay_next_run(self, hay, range) ==
    do_next_run(self.memory = usize_MAX, self, hay, range,
                range.start, self.memory)

\* One iteration of the 'search loop of do_next_back::<P>, started with the
\* loop variables end and self.memory_back.
do_next_back_iter(long, self, hay, range, end, memory_back) ==
    LET needle == self.needle
        n == Len(needle)
        it == [returns |-> FALSE, out |-> None, position |-> end,
               memory |-> memory_back, hay_reads |-> {}, needle_reads |-> {},
               cmps |-> 0, skip |-> FALSE]
    IN  IF n + range.start > end
        THEN [it EXCEPT !.returns = TRUE]
        ELSE IF ~byteset_contains(self.elem, self.byteset, at(hay, end - n))
        THEN [it EXCEPT !.position = end - n,
                        !.memory = IF long THEN memory_back ELSE n,
                        !.hay_reads = {end - n}, !.skip = TRUE]
        ELSE LET crit == IF long THEN self.crit_pos_back
                         ELSE Min2(self.crit_pos_back, memory_back)
                 l == first_mismatch_down(needle, hay, end - n, 0, crit)
                 lread == IF l # -1 THEN l..(crit - 1) ELSE 0..(crit - 1)
             IN  IF l # -1
                 THEN [it EXCEPT !.position = end - (self.crit_pos_back - l),
                                 !.memory = IF long THEN memory_back ELSE n,
                                 !.hay_reads = {end - n}
                                     \cup {end - n + k : k \in lread},
                                 !.needle_reads = lread,
                                 !.cmps = Cardinality(lread)]
                 ELSE LET needle_end == IF long THEN n ELSE memory_back
                          r == first_mismatch_up(needle, hay, end - n,
                                                 self.crit_pos_back, needle_end)
                          rread == IF r # -1 THEN self.crit_pos_back..r
                                   ELSE self.crit_pos_back..(needle_end - 1)
                          read == lread \cup rread
                      IN  IF r # -1
                          THEN [it EXCEPT
                                  !.position = end - self.period,
                                  !.memory = IF long THEN memory_back
                                             ELSE self.period,
                                  !.hay_reads = {end - n}
                                      \cup {end - n + k : k \in read},
                                  !.needle_reads = read,
                                  !.cmps = Cardinality(lread) + Cardinality(rread)]
                          ELSE [it EXCEPT
                                  !.returns = TRUE,
                                  !.out = Some(end - n, end),
                                  !.memory = IF long THEN memory_back ELSE n,
                                  !.hay_reads = {end - n}
                                      \cup {end - n + k : k \in read},
                                  !.needle_reads = read,
                                  !.cmps = Cardinality(lread) + Cardinality(rread)]

\* The iterations of one do_next_back call, in order.
RECURSIVE do_next_back_run(_, _, _, _, _, _)
do_next_back_run(long, self, hay, range, end, memory_back) ==
    LET it == do_next_back_iter(long, self, hay, range, end, memory_back)
        entry == [at |-> end, mem |-> memory_back, it |-> it]
    IN  IF it.returns \/ it.position >= end
        THEN <<entry>>
        ELSE <<entry>> \o do_next_back_run(long, self, hay, range,
                                           it.position, it.memory)

\* Faulty variant of TwoWay_next_back_run: the cursor starts at the hay's end.
TwoWay_next_back_run_from_hay_end(self, hay, range) ==
    do_next_back_run(self.memory = usize_MAX, self, hay, range,
                     Len(hay), self.memory_back)

\* The iterations of TwoWaySearcher::next_back on a span.
TwoWay_next_back_run(self, hay, range) ==
    do_next_back_run(self.memory = usize_MAX, self, hay, range,
                     range.end, self.memory_back)

\* ------------------------------------------------------------ hay navigation
\* A hay is a slice ("slice": every element is a codeword) or UTF-8 text
\* ("str": indices are byte offsets, a codeword is a scalar value).
\* 195 161 is the two-byte encoding of U+00E1; 161 is a continuation byte.
is_continuation(b) == b >= 128 /\ b < 192

is_char_boundary(hk, hay, i) ==
    /\ i \in 0..Len(hay)
    /\ (hk = "str" /\ i < Len(hay)) => ~is_continuation(at(hay, i))

RECURSIVE next_index(_, _, _)
next_index(hk, hay, i) ==
    IF hk = "slice" \/ i + 1 >= Len(hay) \/ ~is_continuation(at(hay, i + 1))
    THEN i + 1
    ELSE next_index(hk, hay, i + 1)

RECURSIVE prev_index(_, _, _)
prev_index(hk, hay, i) ==
    IF hk = "slice" \/ i - 1 <= 0 \/ ~is_continuation(at(hay, i - 1))
    THEN i - 1
    ELSE prev_index(hk, hay, i - 1)

\* ------------------------------------------- EmptySearcher (src/pattern.rs)
EmptySearcher_default ==
    [impl |-> "Empty", elem |-> "u8", needle |-> <<>>, crit_pos |-> 0,
     crit_pos_back |-> 0, period |-> 0, byteset |-> {},
     memory |-> 0, memory_back |-> 0,
     consumed_start |-> FALSE, consumed_end |-> FALSE]

\* Faulty variant of EmptySearcher_search: tests for the empty span before the
\* consumed_start flag.
EmptySearcher_search_empty_first(self, hk, hay, range) ==
    IF range.start = range.end
    THEN [out |-> None, self |-> self]
    ELSE IF ~self.consumed_start
    THEN [out |-> Some(range.start, range.start),
          self |-> [self EXCEPT !.consumed_start = TRUE]]
    ELSE LET start == next_index(hk, hay, range.start)
         IN  [out |-> Some(start, start), self |-> self]

EmptySearcher_search(self, hk, hay, range) ==
    IF ~self.consumed_start
    THEN [out |-> Some(range.start, range.start),
          self |-> [self EXCEPT !.consumed_start = TRUE]]
    ELSE IF range.start = range.end
    THEN [out |-> None, self |-> self]
    ELSE LET start == next_index(hk, hay, range.start)
         IN  [out |-> Some(start, start), self |-> self]

\* Faulty variant of EmptySearcher_rsearch: never sets consumed_end.
EmptySearcher_rsearch_no_flag(self, hk, hay, range) ==
    IF ~self.consumed_end
    THEN [out |-> Some(range.end, range.end), self |-> self]
    ELSE IF range.start = range.end
    THEN [out |-> None, self |-> self]
    ELSE LET end == prev_index(hk, hay, range.end)
         IN  [out |-> Some(end, end), self |-> self]

\* Faulty variant of EmptySearcher_rsearch: steps back one index, not one codeword.
EmptySearcher_rsearch_one_byte(self, hk, hay, range) ==
    IF ~self.consumed_end
    THEN [out |-> Some(range.end, range.end),
          self |-> [self EXCEPT !.consumed_end = TRUE]]
    ELSE IF range.start = range.end
    THEN [out |-> None, self |-> self]
    ELSE [out |-> Some(range.end - 1, range.end - 1), self |-> self]

EmptySearcher_rsearch(self, hk, hay, range) ==
    IF ~self.consumed_end
    THEN [out |-> Some(range.end, range.end),
          self |-> [self EXCEPT !.consumed_end = TRUE]]
    ELSE IF range.start = range.end
    THEN [out |-> None, self |-> self]
    ELSE LET end == prev_index(hk, hay, range.end)
         IN  [out |-> Some(end, end), self |-> self]

\* -------------------------------------- EmptySearcher (src/slices/slice.rs)
SliceEmpty_default ==
    [EmptySearcher_default EXCEPT !.impl = "SliceEmpty"]

\* Faulty variant of SliceEmpty_next: a later call does not advance the start.
SliceEmpty_next_no_advance(self, range) ==
    IF ~self.consumed_start
    THEN [out |-> Some(range.start, range.start),
          self |-> [self EXCEPT !.consumed_start = TRUE]]
    ELSE IF range.start >= range.end
    THEN [out |-> None, self |-> self]
    ELSE [out |-> Some(range.start, range.start), self |-> self]

SliceEmpty_next(self, range) ==
    IF ~self.consumed_start
    THEN [out |-> Some(range.start, range.start),
          self |-> [self EXCEPT !.consumed_start = TRUE]]
    ELSE IF range.start >= range.end
    THEN [out |-> None, self |-> self]
    ELSE [out |-> Some(range.start + 1, range.start + 1), self |-> self]

SliceEmpty_next_back(self, range) ==
    IF ~self.consumed_end
    THEN [out |-> Some(range.end, range.end),
          self |-> [self EXCEPT !.consumed_end = TRUE]]
    ELSE IF range.start >= range.end
    THEN [out |-> None, self |-> self]
    ELSE [out |-> Some(range.end - 1, range.end - 1), self |-> self]

\* ------------------------------------------------- Pattern / SliceSearcher
\* Pattern::into_searcher for &[T]
into_searcher(kind, needle) ==
    IF needle = <<>>
    THEN [SliceEmpty_default EXCEPT !.elem = kind]
    ELSE new(kind, needle)

\* Searcher::search, dispatched on the searcher's implementation
search(self, hk, hay, range) ==
    CASE self.impl = "TwoWay" -> TwoWay_next(self, hay, range)
      [] self.impl = "SliceEmpty" -> SliceEmpty_next(self, range)
      [] self.impl = "Empty" -> EmptySearcher_search(self, hk, hay, range)

\* ReverseSearcher::rsearch
rsearch(self, hk, hay, range) ==
    CASE self.impl = "TwoWay" -> TwoWay_next_back(self, hay, range)
      [] self.impl = "SliceEmpty" -> SliceEmpty_next_back(self, range)
      [] self.impl = "Empty" -> EmptySearcher_rsearch(self, hk, hay, range)

\* ------------------------------------------------ consumers and trimming
\* Option<usize>
NoIndex == [some |-> FALSE, idx |-> 0]
SomeIndex(i) == [some |-> TRUE, idx |-> i]

\* Consumers: the sub-sequence checker SliceChecker(needle), the consumer of
\* an element / element-predicate pattern (the set of codewords it accepts),
\* and the EmptySearcher of src/pattern.rs.
SliceChecker(needle) == [impl |-> "SliceChecker", needle |-> needle]
ElemConsumer(accepted) == [impl |-> "Elem", accepted |-> accepted]

\* Faulty variant of is_prefix_of: compares only as far as the hay reaches.
is_prefix_of_zip(needle, h) ==
    \A i \in 0..(Min2(Len(needle), Len(h)) - 1) : at(h, i) = at(needle, i)

\* SliceChecker::is_prefix_of: hay.get(..needle.len()) == Some(needle)
is_prefix_of(needle, h) ==
    /\ Len(needle) <= Len(h)
    /\ slice(h, 0, Len(needle)) = needle

\* SliceChecker::is_suffix_of
is_suffix_of(needle, h) ==
    IF Len(needle) > Len(h) THEN FALSE
    ELSE slice(h, Len(h) - Len(needle), Len(h)) = needle

\* consume / rconsume of the sub-sequence consumer over a span: the prefix
\* (suffix) check on the spanned part of the hay, reported as the far index.
SliceChecker_consume(self, h, range) ==
    IF is_prefix_of(self.needle, slice(h, range.start, range.end))
    THEN SomeIndex(range.start + Len(self.needle))
    ELSE NoIndex

SliceChecker_rconsume(self, h, range) ==
    IF is_suffix_of(self.needle, slice(h, range.start, range.end))
    THEN SomeIndex(range.end - Len(self.needle))
    ELSE NoIndex

\* consume / rconsume of an element or element-predicate consumer: one
\* codeword at the span's start (end), if the pattern accepts it.
Elem_consume(self, k, h, range) ==
    IF range.start = range.end THEN NoIndex
    ELSE LET nxt == next_index(k, h, range.start)
         IN  IF slice(h, range.start, nxt) \in self.accepted
             THEN SomeIndex(nxt) ELSE NoIndex

Elem_rconsume(self, k, h, range) ==
    IF range.start = range.end THEN NoIndex
    ELSE LET prv == prev_index(k, h, range.end)
         IN  IF slice(h, prv, range.end) \in self.accepted
             THEN SomeIndex(prv) ELSE NoIndex

\* EmptySearcher::consume / rconsume (src/pattern.rs)
EmptySearcher_consume(self, range) == SomeIndex(range.start)
EmptySearcher_rconsume(self, range) == SomeIndex(range.end)

\* Searcher::consume / ReverseSearcher::rconsume, dispatched on the consumer
consume(self, k, h, range) ==
    CASE self.impl = "SliceChecker" -> SliceChecker_consume(self, h, range)
      [] self.impl = "Elem" -> Elem_consume(self, k, h, range)
      [] self.impl = "Empty" -> EmptySearcher_consume(self, range)

rconsume(self, k, h, range) ==
    CASE self.impl = "SliceChecker" -> SliceChecker_rconsume(self, h, range)
      [] self.impl = "Elem" -> Elem_rconsume(self, k, h, range)
      [] self.impl = "Empty" -> EmptySearcher_rconsume(self, range)

\* Pattern::into_checker / into_consumer: the consumer of a searcher's pattern
consumer_of(self) ==
    IF self.impl = "Empty" THEN self ELSE SliceChecker(self.needle)

\* Searcher::trim_start, the default implementation: the while-let loop with
\* loop variables offset and span.
RECURSIVE default_trim_start_loop(_, _, _, _, _)
default_trim_start_loop(self, k, h, offset, range) ==
    LET r == consume(self, k, h, range)
    IN  IF ~r.some THEN offset
        ELSE IF r.idx = range.start THEN r.idx
        ELSE default_trim_start_loop(self, k, h, r.idx,
                                     [start |-> r.idx, end |-> range.end])

\* Faulty variant of default_trim_start: consumes once and stops.
default_trim_start_once(self, k, h) ==
    LET r == consume(self, k, h, [start |-> 0, end |-> Len(h)])
    IN  IF r.some THEN r.idx ELSE 0

default_trim_start(self, k, h) ==
    default_trim_start_loop(self, k, h, 0, [start |-> 0, end |-> Len(h)])

\* ReverseSearcher::trim_end, the default implementation
RECURSIVE default_trim_end_loop(_, _, _, _, _)
default_trim_end_loop(self, k, h, offset, range) ==
    LET r == rconsume(self, k, h, range)
    IN  IF ~r.some THEN offset
        ELSE IF r.idx = range.end THEN r.idx
        ELSE default_trim_end_loop(self, k, h, r.idx,
                                   [start |-> range.start, end |-> r.idx])

\* Faulty variant of default_trim_end: consumes at the front of the hay
\* (consume where rconsume is meant).
default_trim_end_front(self, k, h) ==
    LET r == consume(self, k, h, [start |-> 0, end |-> Len(h)])
    IN  IF r.some THEN r.idx ELSE Len(h)

default_trim_end(self, k, h) ==
    default_trim_end_loop(self, k, h, Len(h), [start |-> 0, end |-> Len(h)])

\* SliceChecker::trim_start: the loop with loop variable i
RECURSIVE SliceChecker_trim_start_loop(_, _, _)
SliceChecker_trim_start_loop(needle, h, i) ==
    LET j == i + Len(needle)
    IN  IF j > Len(h) THEN Len(h)
        ELSE IF slice(h, i, j) # needle THEN i
        ELSE SliceChecker_trim_start_loop(needle, h, j)

\* Faulty variant of SliceChecker_trim_start: removes one copy at most.
SliceChecker_trim_start_once(needle, h) ==
    IF is_prefix_of(needle, h) THEN Len(needle) ELSE 0

SliceChecker_trim_start(needle, h) ==
    IF Len(needle) = 0 THEN 0
    ELSE SliceChecker_trim_start_loop(needle, h, 0)

\* SliceChecker::trim_end: the loop with loop variable j
RECURSIVE SliceChecker_trim_end_loop(_, _, _)
SliceChecker_trim_end_loop(needle, h, j) ==
    IF j < Len(needle) THEN j
    ELSE IF slice(h, j - Len(needle), j) # needle THEN j
    ELSE SliceChecker_trim_end_loop(needle, h, j - Len(needle))

\* Faulty variant of SliceChecker_trim_end: removes one copy at most.
SliceChecker_trim_end_once(needle, h) ==
    IF is_suffix_of(needle, h) THEN Len(h) - Len(needle) ELSE Len(h)

SliceChecker_trim_end(needle, h) ==
    IF Len(needle) # 0
    THEN SliceChecker_trim_end_loop(needle, h, Len(h))
    ELSE Len(h)

\* The iterations of the default trim_start loop over a span: the span each
\* one passes to consume and what consume returns.
RECURSIVE default_trim_start_run(_, _, _, _)
default_trim_start_run(self, k, h, range) ==
    LET r == consume(self, k, h, range)
        entry == [range |-> range, r |-> r]
    IN  IF ~r.some \/ r.idx <= range.start
        THEN <<entry>>
        ELSE <<entry>> \o default_trim_start_run(
                              self, k, h, [start |-> r.idx, end |-> range.end])

\* The iterations of the default trim_end loop.
RECURSIVE default_trim_end_run(_, _, _, _)
default_trim_end_run(self, k, h, range) ==
    LET r == rconsume(self, k, h, range)
        entry == [range |-> range, r |-> r]
    IN  IF ~r.some \/ r.idx >= range.end
        THEN <<entry>>
        ELSE <<entry>> \o default_trim_end_run(
                              self, k, h, [start |-> range.start, end |-> r.idx])

\* Faulty variant of EmptySearcher::trim_start: trims the whole hay.
EmptySearcher_trim_start_all(self, h) == Len(h)

\* EmptySearcher::trim_start / trim_end (src/pattern.rs)
EmptySearcher_trim_start(self, h) == 0
EmptySearcher_trim_end(self, h) == Len(h)

\* trim_start / trim_end of a consumer on a hay
trim_start(self, k, h) ==
    CASE self.impl = "SliceChecker" -> SliceChecker_trim_start(self.needle, h)
      [] self.impl = "Empty" -> EmptySearcher_trim_start(self, h)
      [] self.impl = "Elem" -> default_trim_start(self, k, h)

trim_end(self, k, h) ==
    CASE self.impl = "SliceChecker" -> SliceChecker_trim_end(self.needle, h)
      [] self.impl = "Empty" -> EmptySearcher_trim_end(self, h)
      [] self.impl = "Elem" -> default_trim_end(self, k, h)

\* ------------------------------------------------------------------- state
VARIABLES
    hk,           \* hay kind: "slice" or "str"
    hay,          \* the hay
    searcher,     \* the searcher (constants and mutable state)
    span0,        \* the span the session started from
    range,        \* the span the driver passes next
    arg,          \* the span passed to the last call
    out,          \* what the last call returned
    op,           \* the last call: "new", "search" or "rsearch"
    phase,        \* driver position: "fwd", "fwd_end", "fwd_again",
                  \* "rev", "rev_end", "rev_again"
    fwd_matches,  \* ranges returned by the forward enumeration
    rev_matches,  \* ranges returned by the reverse enumeration
    trims         \* the trim calls made so far: operation, sub-hay, result

vars == <<hk, hay, searcher, span0, range, arg, out, op, phase,
          fwd_matches, rev_matches, trims>>

Range(s, e) == [start |-> s, end |-> e]

\* Well-formed UTF-8 over the scalar values U+0061 and U+00E1.
RECURSIVE StrSeqs(_)
StrSeqs(n) ==
    IF n = 0 THEN {<<>>}
    ELSE LET shorter == StrSeqs(n - 1)
         IN  shorter
             \cup {Append(s, 97) : s \in {x \in shorter : Len(x) = n - 1}}
             \cup (IF n >= 2
                   THEN {s \o <<195, 161>> : s \in {x \in shorter : Len(x) = n - 2}}
                   ELSE {})

Hays(k) == IF k = "slice" THEN SeqsUpTo(Elem, MaxHayLen) ELSE StrSeqs(MaxHayLen)

Searchers(k) ==
    IF k = "slice"
    THEN {into_searcher(kind, needle) :
              kind \in ElemKinds, needle \in SeqsUpTo(Elem, MaxNeedleLen)}
         \cup {EmptySearcher_default}
    ELSE {new("u8", needle) : needle \in StrSeqs(MaxNeedleLen) \ {<<>>}}
         \cup {EmptySearcher_default}

Spans(k, h) ==
    {Range(s, e) : s \in {i \in 0..Len(h) : is_char_boundary(k, h, i)},
                   e \in {i \in 0..Len(h) : is_char_boundary(k, h, i)}}
    \cap {r \in [start : 0..Len(h), end : 0..Len(h)] : r.start <= r.end}

\* A fresh searcher of the same pattern.
fresh(self) ==
    IF self.impl = "Empty" THEN EmptySearcher_default
    ELSE into_searcher(self.elem, self.needle)

\* The documented scenarios: "xx" in "xxxxx" (text), and [A,a,a,a] in the
\* byte hay "Aaaaa!!!Aaa!!!Aaaaaaaaa!!!".
Hay_xxxxx == <<120, 120, 120, 120, 120>>
Needle_xx == <<120, 120>>
Hay_Aaaa ==
    <<65, 97, 97, 97, 97, 33, 33, 33, 65, 97, 97, 33, 33, 33,
      65, 97, 97, 97, 97, 97, 97, 97, 97, 33, 33, 33>>
Needle_Aaaa == <<65, 97, 97, 97>>

Scenarios ==
    {[hk |-> "str", hay |-> Hay_xxxxx, searcher |-> new("u8", Needle_xx)],
     [hk |-> "slice", hay |-> Hay_Aaaa, searcher |-> new("u8", Needle_Aaaa)]}

InitCommon ==
    /\ \/ /\ hk \in {"slice", "str"}
          /\ hay \in Hays(hk)
          /\ searcher \in Searchers(hk)
          /\ searcher.impl # "Panic"
          /\ span0 \in Spans(hk, hay)
       \/ \E sc \in Scenarios :
             /\ hk = sc.hk
             /\ hay = sc.hay
             /\ searcher = sc.searcher
             /\ span0 = Range(0, Len(hay))
    /\ range = span0
    /\ arg = span0
    /\ out = None
    /\ op = "new"
    /\ phase = "fwd"
    /\ fwd_matches = <<>>
    /\ rev_matches = <<>>
    /\ trims = <<>>

\* ------------------------------------------------- arbitrary call sequences
Init ==
    /\ InitCommon
    /\ Len(hay) <= MaxAnyHayLen
    /\ Len(searcher.needle) <= MaxAnyNeedleLen
    /\ span0 = Range(0, Len(hay))

Search(r) ==
    LET res == search(searcher, hk, hay, r)
    IN  /\ searcher' = res.self
        /\ out' = res.out
        /\ arg' = r
        /\ op' = "search"
        /\ UNCHANGED <<hk, hay, span0, range, phase, fwd_matches, rev_matches,
                     trims>>

RSearch(r) ==
    LET res == rsearch(searcher, hk, hay, r)
    IN  /\ searcher' = res.self
        /\ out' = res.out
        /\ arg' = r
        /\ op' = "rsearch"
        /\ UNCHANGED <<hk, hay, span0, range, phase, fwd_matches, rev_matches,
                     trims>>

Next ==
    \/ \E r \in Spans(hk, hay) : Search(r)
    \/ \E r \in Spans(hk, hay) : RSearch(r)

Spec == Init /\ [][Next]_vars

\* ----------------------------------------------------- enumeration sessions
\* Forward enumeration: search the current span; after a match the span
\* becomes [match end, e).  The first None ends the enumeration.
FwdSearch ==
    /\ phase = "fwd"
    /\ LET res == search(searcher, hk, hay, range)
       IN  /\ searcher' = res.self
           /\ out' = res.out
           /\ arg' = range
           /\ op' = "search"
           /\ IF res.out.some
              THEN /\ fwd_matches' = Append(fwd_matches, res.out)
                   /\ range' = Range(res.out.end, range.end)
                   /\ phase' = "fwd"
              ELSE /\ UNCHANGED <<fwd_matches, range>>
                   /\ phase' = "fwd_end"
    /\ UNCHANGED <<hk, hay, span0, rev_matches, trims>>

\* A further search of the exhausted span.
FwdAgain ==
    /\ phase \in {"fwd_end", "fwd_again"}
    /\ LET res == search(searcher, hk, hay, range)
       IN  /\ searcher' = res.self
           /\ out' = res.out
           /\ arg' = range
           /\ op' = "search"
    /\ phase' = "fwd_again"
    /\ UNCHANGED <<hk, hay, span0, range, fwd_matches, rev_matches, trims>>

\* The reverse enumeration starts over with a fresh searcher of the pattern.
StartReverse ==
    /\ phase \in {"fwd_end", "fwd_again"}
    /\ searcher' = fresh(searcher)
    /\ range' = span0
    /\ arg' = span0
    /\ out' = None
    /\ op' = "new"
    /\ phase' = "rev"
    /\ UNCHANGED <<hk, hay, span0, fwd_matches, rev_matches, trims>>

RevSearch ==
    /\ phase = "rev"
    /\ LET res == rsearch(searcher, hk, hay, range)
       IN  /\ searcher' = res.self
           /\ out' = res.out
           /\ arg' = range
           /\ op' = "rsearch"
           /\ IF res.out.some
              THEN /\ rev_matches' = Append(rev_matches, res.out)
                   /\ range' = Range(range.start, res.out.start)
                   /\ phase' = "rev"
              ELSE /\ UNCHANGED <<rev_matches, range>>
                   /\ phase' = "rev_end"
    /\ UNCHANGED <<hk, hay, span0, fwd_matches, trims>>

RevAgain ==
    /\ phase \in {"rev_end", "rev_again"}
    /\ LET res == rsearch(searcher, hk, hay, range)
       IN  /\ searcher' = res.self
           /\ out' = res.out
           /\ arg' = range
           /\ op' = "rsearch"
    /\ phase' = "rev_again"
    /\ UNCHANGED <<hk, hay, span0, range, fwd_matches, rev_matches, trims>>

InitEnum == InitCommon

NextEnum == FwdSearch \/ FwdAgain \/ StartReverse \/ RevSearch \/ RevAgain

SpecEnum == InitEnum /\ [][NextEnum]_vars

\* ------------------------------------------------------------- trim sessions
\* A consumer of a pattern trims a hay.  Each call gets the sub-hay the calls
\* before it have left, as trim_start(trim_end(h)) does.
MaxTrims == 2

Codewords(k) == IF k = "slice" THEN {<<97>>, <<98>>} ELSE {<<97>>, <<195, 161>>}

Hay_xyxyx == <<120, 121, 120, 121, 120>>
Needle_xyx == <<120, 121, 120>>

Consumers(k) ==
    {SliceChecker(needle) :
         needle \in (IF k = "slice" THEN SeqsUpTo(Elem, MaxNeedleLen)
                     ELSE StrSeqs(MaxNeedleLen))}
    \cup {ElemConsumer(accepted) : accepted \in SUBSET Codewords(k)}
    \cup {EmptySearcher_default}

TrimScenarios ==
    {[hk |-> "str", hay |-> Hay_xyxyx, searcher |-> SliceChecker(Needle_xyx)],
     [hk |-> "str", hay |-> Hay_xyxyx, searcher |-> ElemConsumer({<<120>>})]}

InitTrim ==
    /\ \/ /\ hk \in {"slice", "str"}
          /\ hay \in Hays(hk)
          /\ searcher \in Consumers(hk)
       \/ \E sc \in TrimScenarios :
             /\ hk = sc.hk
             /\ hay = sc.hay
             /\ searcher = sc.searcher
    /\ span0 = Range(0, Len(hay))
    /\ range = span0
    /\ arg = span0
    /\ out = None
    /\ op = "new"
    /\ phase = "trim"
    /\ fwd_matches = <<>>
    /\ rev_matches = <<>>
    /\ trims = <<>>

SubHay == slice(hay, range.start, range.end)

TrimStart ==
    /\ phase = "trim"
    /\ Len(trims) < MaxTrims
    /\ LET i == trim_start(searcher, hk, SubHay)
       IN  /\ trims' = Append(trims, [op |-> "trim_start", arg |-> range,
                                      ret |-> i])
           /\ range' = Range(range.start + i, range.end)
    /\ arg' = range
    /\ op' = "trim_start"
    /\ UNCHANGED <<hk, hay, searcher, span0, out, phase,
                   fwd_matches, rev_matches>>

TrimEnd ==
    /\ phase = "trim"
    /\ Len(trims) < MaxTrims
    /\ LET j == trim_end(searcher, hk, SubHay)
       IN  /\ trims' = Append(trims, [op |-> "trim_end", arg |-> range,
                                      ret |-> j])
           /\ range' = Range(range.start, range.start + j)
    /\ arg' = range
    /\ op' = "trim_end"
    /\ UNCHANGED <<hk, hay, searcher, span0, out, phase,
                   fwd_matches, rev_matches>>

NextTrim == TrimStart \/ TrimEnd

SpecTrim == InitTrim /\ [][NextTrim]_vars

\* ------------------------------------------------ all calls of a searcher
\* Arbitrary sequences of the calls of the Searcher / ReverseSearcher traits
\* that src/ implements: search and rsearch of every searcher, and consume,
\* rconsume, trim_start, trim_end of the EmptySearcher.
Consume(r) ==
    /\ searcher.impl = "Empty"
    /\ out' = EmptySearcher_consume(searcher, r)
    /\ arg' = r
    /\ op' = "consume"
    /\ UNCHANGED <<hk, hay, searcher, span0, range, phase,
                   fwd_matches, rev_matches, trims>>

RConsume(r) ==
    /\ searcher.impl = "Empty"
    /\ out' = EmptySearcher_rconsume(searcher, r)
    /\ arg' = r
    /\ op' = "rconsume"
    /\ UNCHANGED <<hk, hay, searcher, span0, range, phase,
                   fwd_matches, rev_matches, trims>>

EmptyTrimStart ==
    /\ searcher.impl = "Empty"
    /\ out' = EmptySearcher_trim_start(searcher, hay)
    /\ arg' = Range(0, Len(hay))
    /\ op' = "trim_start"
    /\ UNCHANGED <<hk, hay, searcher, span0, range, phase,
                   fwd_matches, rev_matches, trims>>

EmptyTrimEnd ==
    /\ searcher.impl = "Empty"
    /\ out' = EmptySearcher_trim_end(searcher, hay)
    /\ arg' = Range(0, Len(hay))
    /\ op' = "trim_end"
    /\ UNCHANGED <<hk, hay, searcher, span0, range, phase,
                   fwd_matches, rev_matches, trims>>

NextCalls ==
    \/ \E r \in Spans(hk, hay) : Search(r)
    \/ \E r \in Spans(hk, hay) : RSearch(r)
    \/ \E r \in Spans(hk, hay) : Consume(r)
    \/ \E r \in Spans(hk, hay) : RConsume(r)
    \/ EmptyTrimStart
    \/ EmptyTrimEnd

SpecCalls == Init /\ [][NextCalls]_vars

\* ------------------------------------------ enumeration from both ends
\* One EmptySearcher driven from both ends of a span in any interleaving.
\* After a forward match m the span becomes [m.end, e), after a reverse match
\* m it becomes [s, m.start); a direction stops at its first None.
\* phase is "both", "fwd_done", "rev_done" or "both_done".
InitBothEnds ==
    /\ hk \in {"slice", "str"}
    /\ hay \in Hays(hk)
    /\ searcher = EmptySearcher_default
    /\ span0 \in Spans(hk, hay)
    /\ range = span0
    /\ arg = span0
    /\ out = None
    /\ op = "new"
    /\ phase = "both"
    /\ fwd_matches = <<>>
    /\ rev_matches = <<>>
    /\ trims = <<>>

FrontSearch ==
    /\ phase \in {"both", "rev_done"}
    /\ LET res == search(searcher, hk, hay, range)
       IN  /\ searcher' = res.self
           /\ out' = res.out
           /\ arg' = range
           /\ op' = "search"
           /\ IF res.out.some
              THEN /\ fwd_matches' = Append(fwd_matches, res.out)
                   /\ range' = Range(res.out.end, range.end)
                   /\ phase' = phase
              ELSE /\ UNCHANGED <<fwd_matches, range>>
                   /\ phase' = IF phase = "both" THEN "fwd_done"
                               ELSE "both_done"
    /\ UNCHANGED <<hk, hay, span0, rev_matches, trims>>

BackSearch ==
    /\ phase \in {"both", "fwd_done"}
    /\ LET res == rsearch(searcher, hk, hay, range)
       IN  /\ searcher' = res.self
           /\ out' = res.out
           /\ arg' = range
           /\ op' = "rsearch"
           /\ IF res.out.some
              THEN /\ rev_matches' = Append(rev_matches, res.out)
                   /\ range' = Range(range.start, res.out.start)
                   /\ phase' = phase
              ELSE /\ UNCHANGED <<rev_matches, range>>
                   /\ phase' = IF phase = "both" THEN "rev_done"
                               ELSE "both_done"
    /\ UNCHANGED <<hk, hay, span0, fwd_matches, trims>>

NextBothEnds == FrontSearch \/ BackSearch

SpecBothEnds == InitBothEnds /\ [][NextBothEnds]_vars

\* ------------------------------------------------------------ construction
\* TwoWaySearcher::new applied to needles of every element type.  Before the
\* call searcher holds the needle and the element type only.
MaxLongNeedleLen == 7

\* Element values of the needles constructed: three letters.
NeedleElem == {97, 98, 99}

Unbuilt(kind, needle) ==
    [EmptySearcher_default EXCEPT !.impl = "Needle", !.elem = kind,
                                  !.needle = needle]

InitNew ==
    /\ hk = "slice"
    /\ hay = <<>>
    /\ searcher \in {Unbuilt(kind, needle) :
                        kind \in ElemKinds,
                        needle \in SeqsUpTo(NeedleElem, MaxLongNeedleLen) \ {<<>>}}
    /\ span0 = Range(0, 0)
    /\ range = span0
    /\ arg = span0
    /\ out = None
    /\ op = "needle"
    /\ phase = "fwd"
    /\ fwd_matches = <<>>
    /\ rev_matches = <<>>
    /\ trims = <<>>

New ==
    /\ op = "needle"
    /\ searcher' = new(searcher.elem, searcher.needle)
    /\ op' = "new"
    /\ UNCHANGED <<hk, hay, span0, range, arg, out, phase,
                   fwd_matches, rev_matches, trims>>

NextNew == New

SpecNew == InitNew /\ [][NextNew]_vars

\* ------------------------------------------------- long forward enumerations
\* Forward enumerations over the whole of longer slices.
MaxLongHayLen == 9

InitForward ==
    /\ hk = "slice"
    /\ hay \in SeqsUpTo(Elem, MaxLongHayLen)
    /\ searcher \in {new(kind, needle) :
                        kind \in ElemKinds,
                        needle \in SeqsUpTo(Elem, MaxNeedleLen) \ {<<>>}}
    /\ searcher.impl # "Panic"
    /\ span0 = Range(0, Len(hay))
    /\ range = span0
    /\ arg = span0
    /\ out = None
    /\ op = "new"
    /\ phase = "fwd"
    /\ fwd_matches = <<>>
    /\ rev_matches = <<>>
    /\ trims = <<>>

NextForward == FwdSearch

SpecForward == InitForward /\ [][NextForward]_vars

\* ============================================================ properties
\* Reference notions, independent of the searchers.
Occurs(h, needle, p) ==
    /\ p >= 0
    /\ p + Len(needle) <= Len(h)
    /\ \A i \in 0..(Len(needle) - 1) : at(h, p + i) = at(needle, i)

OccurrencesIn(h, needle, r) ==
    {p \in r.start..(r.end - Len(needle)) : Occurs(h, needle, p)}

Leftmost(h, needle, r) ==
    LET occ == OccurrencesIn(h, needle, r)
    IN  IF occ = {} THEN None
        ELSE LET p == CHOOSE x \in occ : \A y \in occ : x <= y
             IN  Some(p, p + Len(needle))

Rightmost(h, needle, r) ==
    LET occ == OccurrencesIn(h, needle, r)
    IN  IF occ = {} THEN None
        ELSE LET p == CHOOSE x \in occ : \A y \in occ : x >= y
             IN  Some(p, p + Len(needle))

TotallyOrdered == searcher.elem \in {"u8", "ord"}

\* The last call was a call of the forward (reverse) enumeration session.
FwdSessionCall == op = "search" /\ phase \in {"fwd", "fwd_end"}
RevSessionCall == op = "rsearch" /\ phase \in {"rev", "rev_end"}

\* C1: in a forward enumeration session of a Two-Way searcher over totally
\* ordered elements, every search call returns the leftmost occurrence of the
\* needle in the span it was given, and None exactly when there is none.
C1_ForwardLeftmost ==
    (FwdSessionCall /\ searcher.impl = "TwoWay" /\ TotallyOrdered)
        => out = Leftmost(hay, searcher.needle, arg)

\* C1 witness: a later call of a session found an occurrence that does not
\* start at the span start, after at least one earlier match.
C1_Witness ==
    /\ FwdSessionCall /\ searcher.impl = "TwoWay" /\ TotallyOrdered
    /\ Len(fwd_matches) >= 2
    /\ out.some /\ out.start > arg.start
    /\ Len(searcher.needle) >= 2

\* C2: in a reverse enumeration session of a Two-Way searcher over totally
\* ordered elements, every rsearch call returns the rightmost occurrence of
\* the needle in the span it was given, and None exactly when there is none.
C2_ReverseRightmost ==
    (RevSessionCall /\ searcher.impl = "TwoWay" /\ TotallyOrdered)
        => out = Rightmost(hay, searcher.needle, arg)

\* C2 witness: a later rsearch of a session found an occurrence that does
\* not end at the span end, after at least one earlier match.
C2_Witness ==
    /\ RevSessionCall /\ searcher.impl = "TwoWay" /\ TotallyOrdered
    /\ Len(rev_matches) >= 2
    /\ out.some /\ out.end < arg.end
    /\ Len(searcher.needle) >= 2

\* C3: whatever calls came before, a range returned by search or rsearch of
\* a sub-sequence searcher (Two-Way or empty) lies inside the span passed.
C3_Containment ==
    (op \in {"search", "rsearch"} /\ out.some)
        => (arg.start <= out.start /\ out.start <= out.end /\ out.end <= arg.end)

\* C3 witness: a short-period searcher returned a match from a span that is
\* not the whole hay while the memory of the other direction was off its
\* initial value (left there by an earlier call that returned None).
C3_Witness ==
    /\ out.some
    /\ searcher.impl = "TwoWay"
    /\ \/ op = "rsearch" /\ searcher.memory \notin {0, usize_MAX}
       \/ op = "search"
            /\ searcher.memory_back \notin {Len(searcher.needle), usize_MAX}
    /\ arg # Range(0, Len(hay))

\* C4 (as claimed): once search (rsearch) of a Two-Way searcher has returned
\* None for a span, every later search (rsearch) of that span returns None.
C4_ExhaustionStable ==
    (phase \in {"fwd_again", "rev_again"} /\ searcher.impl = "TwoWay")
        => out = None

\* C5 (as claimed): with equality-only elements the Two-Way searcher still
\* returns the leftmost occurrence from search and the rightmost from
\* rsearch in every session call, and None only when there is none.
C5_EqualityOnlyCorrect ==
    (searcher.impl = "TwoWay" /\ searcher.elem = "eq")
        => /\ FwdSessionCall => out = Leftmost(hay, searcher.needle, arg)
           /\ RevSessionCall => out = Rightmost(hay, searcher.needle, arg)

SubSequenceSearcher == searcher.impl \in {"TwoWay", "SliceEmpty"}

\* C6: in a forward enumeration of a sub-sequence searcher the returned
\* ranges have strictly increasing starts and each starts at or after the
\* end of the one before.
C6_ForwardOrdered ==
    SubSequenceSearcher =>
        \A k \in 2..Len(fwd_matches) :
            /\ fwd_matches[k].start > fwd_matches[k - 1].start
            /\ fwd_matches[k].start >= fwd_matches[k - 1].end

\* C6 witness: a forward enumeration of a non-empty needle that returned
\* three matches, not all adjacent.
C6_Witness ==
    /\ searcher.impl = "TwoWay"
    /\ Len(fwd_matches) >= 3
    /\ fwd_matches[3].start > fwd_matches[2].end

\* C7: in a reverse enumeration of a sub-sequence searcher the returned
\* ranges have strictly decreasing ends and each ends at or before the start
\* of the one before.
C7_ReverseOrdered ==
    SubSequenceSearcher =>
        \A k \in 2..Len(rev_matches) :
            /\ rev_matches[k].end < rev_matches[k - 1].end
            /\ rev_matches[k].end <= rev_matches[k - 1].start

\* C7 witness: a reverse enumeration of a non-empty needle that returned
\* three matches, not all adjacent.
C7_Witness ==
    /\ searcher.impl = "TwoWay"
    /\ Len(rev_matches) >= 3
    /\ rev_matches[3].end < rev_matches[2].start

\* Codeword boundaries of the hay inside a span, in increasing order.
BoundarySet(r) == {i \in r.start..r.end : is_char_boundary(hk, hay, i)}

RECURSIVE Ascending(_)
Ascending(S) ==
    IF S = {} THEN <<>>
    ELSE LET m == CHOOSE x \in S : \A y \in S : x <= y
         IN  <<Some(m, m)>> \o Ascending(S \ {m})

Reverse(s) == [k \in 1..Len(s) |-> s[Len(s) + 1 - k]]

IsPrefix(s, t) == Len(s) <= Len(t) /\ \A k \in 1..Len(s) : s[k] = t[k]

EmptyPattern == searcher.impl \in {"Empty", "SliceEmpty"}

\* C8: a forward enumeration of a fresh empty-pattern searcher returns the
\* empty range at each codeword boundary of the span in increasing order,
\* k+1 of them for a hay of k codewords, and then None.
C8_EmptyPatternCount ==
    EmptyPattern =>
        /\ IsPrefix(fwd_matches, Ascending(BoundarySet(span0)))
        /\ phase # "fwd" => fwd_matches = Ascending(BoundarySet(span0))
        /\ (phase = "fwd_end" /\ op = "search") => out = None

\* C8 witness: the enumeration over a whole text hay with a multi-byte
\* codeword has ended after one match per boundary.
C8_Witness ==
    /\ searcher.impl = "Empty" /\ hk = "str"
    /\ span0 = Range(0, Len(hay))
    /\ phase = "fwd_end"
    /\ Len(hay) > Cardinality(BoundarySet(span0)) - 1
    /\ Len(fwd_matches) = Cardinality(BoundarySet(span0))
    /\ Len(fwd_matches) >= 4

\* C9: over an empty span a fresh empty-pattern searcher returns the empty
\* range at that position exactly once and None on every later call, in a
\* forward enumeration and in a reverse one.
C9_EmptySpanOnce ==
    (EmptyPattern /\ span0.start = span0.end) =>
        /\ Len(fwd_matches) <= 1 /\ Len(rev_matches) <= 1
        /\ phase # "fwd" => fwd_matches = <<Some(span0.start, span0.start)>>
        /\ (op = "search" /\ phase \in {"fwd_end", "fwd_again"}) => out = None
        /\ phase \in {"rev_end", "rev_again"}
              => rev_matches = <<Some(span0.end, span0.end)>>
        /\ (op = "rsearch" /\ phase \in {"rev_end", "rev_again"}) => out = None

\* C9 witness: both enumerations over an empty span strictly inside the hay
\* have ended and the reverse one was called again after its None.
C9_Witness ==
    /\ EmptyPattern /\ span0.start = span0.end
    /\ span0.start > 0 /\ span0.end < Len(hay)
    /\ phase = "rev_again"
    /\ Len(fwd_matches) = 1 /\ Len(rev_matches) = 1

\* C10: for the empty pattern the complete forward enumeration is the exact
\* reverse of the complete reverse enumeration by another fresh searcher.
C10_EmptyReversal ==
    (EmptyPattern /\ phase \in {"rev_end", "rev_again"})
        => fwd_matches = Reverse(rev_matches)

\* C10 witness: both enumerations are complete over a text hay with a
\* multi-byte codeword and returned at least three ranges each.
C10_Witness ==
    /\ searcher.impl = "Empty" /\ hk = "str"
    /\ phase = "rev_end"
    /\ \E i \in 0..(Len(hay) - 1) : is_continuation(at(hay, i))
    /\ Len(rev_matches) >= 3

\* The state right after the first search of a forward enumeration.
FirstSearch ==
    /\ op = "search" /\ phase \in {"fwd", "fwd_end"}
    /\ arg = span0
    /\ Len(fwd_matches) = (IF out.some THEN 1 ELSE 0)

\* C11: consume/search agreement.  If consume of the pattern's consumer over a
\* span returns Some(e), the first search of a fresh searcher of the pattern
\* over that span returns exactly [span start, e).
C11_ConsumeSearchAgree ==
    FirstSearch =>
        LET c == consume(consumer_of(searcher), hk, hay, span0)
        IN  c.some => out = Some(span0.start, c.idx)

\* C11 witness: a first search over a span strictly inside the hay returned
\* the occurrence of a needle of two or more elements at the span start,
\* which consume accepts.
C11_Witness ==
    /\ FirstSearch
    /\ searcher.impl = "TwoWay" /\ Len(searcher.needle) >= 2
    /\ span0.start > 0 /\ span0.end < Len(hay)
    /\ consume(consumer_of(searcher), hk, hay, span0).some
    /\ out = Some(span0.start, span0.start + Len(searcher.needle))

\* s is a concatenation of whole copies of the non-empty needle.
IsRepetition(needle, s) ==
    /\ Len(s) % Len(needle) = 0
    /\ \A k \in 0..(Len(s) - 1) : at(s, k) = at(needle, k % Len(needle))

SubSequenceConsumer == searcher.impl = "SliceChecker"

\* The sub-hay a recorded trim call was given.
TrimArg(t) == slice(hay, t.arg.start, t.arg.end)

\* C12: trim_start of a sub-sequence pattern returns an index i such that
\* hay[0..i] is a concatenation of whole copies of the needle and hay[i..]
\* does not start with the needle; for an empty needle it returns 0.
C12_TrimStartSubSequence ==
    SubSequenceConsumer =>
        \A n \in 1..Len(trims) :
            trims[n].op = "trim_start" =>
                LET h == TrimArg(trims[n])
                    i == trims[n].ret
                    needle == searcher.needle
                IN  IF needle = <<>> THEN i = 0
                    ELSE /\ i \in 0..Len(h)
                         /\ IsRepetition(needle, slice(h, 0, i))
                         /\ ~is_prefix_of(needle, slice(h, i, Len(h)))

\* C13: trim_end of a sub-sequence pattern returns an index j such that
\* hay[j..] is a concatenation of whole copies of the needle and hay[0..j]
\* does not end with the needle; for an empty needle it returns len(hay).
C13_TrimEndSubSequence ==
    SubSequenceConsumer =>
        \A n \in 1..Len(trims) :
            trims[n].op = "trim_end" =>
                LET h == TrimArg(trims[n])
                    j == trims[n].ret
                    needle == searcher.needle
                IN  IF needle = <<>> THEN j = Len(h)
                    ELSE /\ j \in 0..Len(h)
                         /\ IsRepetition(needle, slice(h, j, Len(h)))
                         /\ ~is_suffix_of(needle, slice(h, 0, j))

\* C13 witness: trim_end removed two copies of a needle of two elements and
\* stopped with a non-empty rest shorter than the needle.
C13_Witness ==
    /\ SubSequenceConsumer /\ Len(searcher.needle) = 2
    /\ Len(trims) = 1 /\ trims[1].op = "trim_end"
    /\ trims[1].ret = 1 /\ Len(hay) = 5

ElementConsumer == searcher.impl = "Elem"

\* The codeword boundaries of h, the end of the codeword starting at boundary
\* i, and the starts of the codewords the pattern does not accept.
Boundaries(h) == {i \in 0..Len(h) : is_char_boundary(hk, h, i)}
CodewordEnd(h, i) ==
    CHOOSE e \in Boundaries(h) :
        e > i /\ \A b \in Boundaries(h) : b > i => e <= b
Rejected(h) ==
    {i \in Boundaries(h) \ {Len(h)} :
         slice(h, i, CodewordEnd(h, i)) \notin searcher.accepted}
FirstRejected(h) ==
    IF Rejected(h) = {} THEN Len(h)
    ELSE CHOOSE i \in Rejected(h) : \A b \in Rejected(h) : i <= b
AfterLastRejected(h) ==
    IF Rejected(h) = {} THEN 0
    ELSE CodewordEnd(h, CHOOSE i \in Rejected(h) : \A b \in Rejected(h) : b <= i)

\* C14: for an element or element-predicate pattern the default trim_start
\* returns the index of the first codeword the pattern rejects (end_index if
\* none), the default trim_end the index just after the last such codeword
\* (start_index if none), and both together leave the hay between them.
C14_TrimByElement ==
    ElementConsumer =>
        /\ \A n \in 1..Len(trims) :
             LET h == TrimArg(trims[n])
             IN  /\ trims[n].op = "trim_start"
                       => trims[n].ret = FirstRejected(h)
                 /\ trims[n].op = "trim_end"
                       => trims[n].ret = AfterLastRejected(h)
        /\ (Len(trims) = 2 /\ trims[1].op # trims[2].op)
              => IF Rejected(hay) = {} THEN range.start = range.end
                 ELSE range = Range(FirstRejected(hay), AfterLastRejected(hay))

\* C14 witness: a text hay whose first and last codewords are multi-byte and
\* accepted, trimmed at both ends, with a non-empty hay left.
C14_Witness ==
    /\ ElementConsumer /\ hk = "str" /\ searcher.accepted = {<<195, 161>>}
    /\ Len(trims) = 2 /\ trims[1].op = "trim_start" /\ trims[2].op = "trim_end"
    /\ range.start = 2 /\ range.end = Len(hay) - 2
    /\ range.start < range.end

\* The ranges left by trimming the whole hay at the start and then at the
\* end, and at the end and then at the start.
StartThenEnd ==
    LET i == trim_start(searcher, hk, hay)
        j == trim_end(searcher, hk, slice(hay, i, Len(hay)))
    IN  Range(i, i + j)
EndThenStart ==
    LET j == trim_end(searcher, hk, hay)
        i == trim_start(searcher, hk, slice(hay, 0, j))
    IN  Range(i, j)

SameSubHay(r1, r2) ==
    \/ r1 = r2
    \/ r1.start = r1.end /\ r2.start = r2.end

BothEndsTrimmed == Len(trims) = 2 /\ trims[1].op # trims[2].op

\* C15: for a single-element or element-predicate pattern, trimming the start
\* and then the end leaves the same sub-hay as trimming the end and then the
\* start.
C15_TrimCommutes ==
    (ElementConsumer /\ BothEndsTrimmed) =>
        /\ trims[1].op = "trim_start" => SameSubHay(range, EndThenStart)
        /\ trims[1].op = "trim_end" => SameSubHay(range, StartThenEnd)

\* C15 witness: the documented example, 'x' trimmed from "xyxyx" at the end
\* and then at the start, leaves "yxy".
C15_Witness ==
    /\ ElementConsumer /\ hay = Hay_xyxyx /\ searcher.accepted = {<<120>>}
    /\ Len(trims) = 2 /\ trims[1].op = "trim_end" /\ trims[2].op = "trim_start"
    /\ range = Range(1, 4)

\* C16: trim idempotence.  trim_start applied to the sub-hay that trim_start
\* left removes nothing more (returns 0), and trim_end applied to the sub-hay
\* that trim_end left returns its end, for sub-sequence and element patterns.
C16_TrimIdempotent ==
    (Len(trims) = 2 /\ trims[1].op = trims[2].op) =>
        /\ trims[2].arg = range
        /\ trims[2].op = "trim_start" => trims[2].ret = 0
        /\ trims[2].op = "trim_end" => trims[2].ret = Len(TrimArg(trims[2]))

\* C16 witness: trim_start removed a copy of a needle of two elements, left a
\* hay of three elements, and a second trim_start was applied to it.
C16_Witness ==
    /\ SubSequenceConsumer /\ Len(searcher.needle) = 2
    /\ Len(trims) = 2 /\ trims[1].op = "trim_start" /\ trims[2].op = "trim_start"
    /\ trims[1].ret = 2 /\ range = Range(2, 5) /\ Len(hay) = 5

\* C17: for a well-formed UTF-8 hay and a non-empty well-formed needle, every
\* range search or rsearch of the text searcher returns has both endpoints on
\* scalar-value boundaries of the hay.
C17_TextMatchOnBoundaries ==
    (hk = "str" /\ searcher.impl = "TwoWay" /\ out.some) =>
        /\ is_char_boundary(hk, hay, out.start)
        /\ is_char_boundary(hk, hay, out.end)

\* C17 witness: a call on a text hay returned a match inside the span that
\* starts right after a multi-byte scalar value and ends with one.
C17_Witness ==
    /\ hk = "str" /\ searcher.impl = "TwoWay" /\ out.some
    /\ op \in {"search", "rsearch"}
    /\ out.start > arg.start
    /\ is_continuation(at(hay, out.start - 1))
    /\ is_continuation(at(hay, out.end - 1))

\* The forward enumeration so far is a prefix of expected, and all of it once
\* it has ended; likewise the reverse enumeration.
FwdEnumerates(expected) ==
    /\ IsPrefix(fwd_matches, expected)
    /\ phase # "fwd" => fwd_matches = expected
RevEnumerates(expected) ==
    /\ IsPrefix(rev_matches, expected)
    /\ phase \in {"rev_end", "rev_again"} => rev_matches = expected

\* C18: for needle "xx" in hay "xxxxx" the forward enumeration returns exactly
\* the matches starting at 0 and then 2, the reverse enumeration exactly the
\* matches starting at 3 and then 1, and the reversed reverse enumeration
\* differs from the forward one.
C18_ForwardReverseDiffer ==
    (hay = Hay_xxxxx /\ searcher.needle = Needle_xx) =>
        /\ FwdEnumerates(<<Some(0, 2), Some(2, 4)>>)
        /\ RevEnumerates(<<Some(3, 5), Some(1, 3)>>)
        /\ phase \in {"rev_end", "rev_again"}
              => Reverse(rev_matches) # fwd_matches

\* C18 witness: both enumerations of "xx" in "xxxxx" have ended.
C18_Witness ==
    /\ hay = Hay_xxxxx /\ searcher.needle = Needle_xx
    /\ phase = "rev_end"
    /\ Len(fwd_matches) = 2 /\ Len(rev_matches) = 2

\* C19: searching [A,a,a,a] in "Aaaaa!!!Aaa!!!Aaaaaaaaa!!!" the forward
\* enumeration returns exactly 0..4 and 14..18, in that order, and then None.
C19_LiteralScenario ==
    (hay = Hay_Aaaa /\ searcher.needle = Needle_Aaaa) =>
        /\ FwdEnumerates(<<Some(0, 4), Some(14, 18)>>)
        /\ (phase = "fwd_end" /\ op = "search") => out = None

\* C19 witness: the forward enumeration of the scenario has ended with None
\* after two matches.
C19_Witness ==
    /\ hay = Hay_Aaaa /\ searcher.needle = Needle_Aaaa
    /\ phase = "fwd_end" /\ op = "search" /\ out = None
    /\ Len(fwd_matches) = 2

\* C20: with pattern "xyx" on hay "xyxyx", trim_start returns 3 and
\* trim_start followed by trim_end leaves "yx"; trim_end returns 2 and
\* trim_end followed by trim_start leaves "xy".
C20_OrderDependentTrim ==
    (SubSequenceConsumer /\ hay = Hay_xyxyx /\ searcher.needle = Needle_xyx
     /\ Len(trims) >= 1) =>
        /\ trims[1].op = "trim_start" => trims[1].ret = 3
        /\ trims[1].op = "trim_end" => trims[1].ret = 2
        /\ BothEndsTrimmed =>
              SubHay = (IF trims[1].op = "trim_start"
                        THEN <<121, 120>> ELSE <<120, 121>>)

\* The element comparisons of a run of iterations.
RECURSIVE RunCmps(_)
RunCmps(run) ==
    IF run = <<>> THEN 0 ELSE run[1].it.cmps + RunCmps(Tail(run))

\* The last iteration of a run.
LastIter(run) == run[Len(run)].it

\* A complete forward enumeration by a Two-Way searcher over a span: the
\* matches it returns and the element comparisons of all its search calls.
RECURSIVE ForwardEnumeration(_, _, _)
ForwardEnumeration(self, h, r) ==
    LET run == TwoWay_next_run(self, h, r)
        last == LastIter(run)
    IN  IF ~last.out.some
        THEN [matches |-> <<>>, cmps |-> RunCmps(run)]
        ELSE LET rest == ForwardEnumeration(
                             [self EXCEPT !.memory = last.memory], h,
                             Range(last.out.end, r.end))
             IN  [matches |-> <<last.out>> \o rest.matches,
                  cmps |-> RunCmps(run) + rest.cmps]

ForwardEnded == phase = "fwd_end" /\ op = "search"

\* C21: over a complete forward enumeration of a non-empty needle the total
\* number of element comparisons of all search calls is at most twice the
\* length of the hay searched plus the length of the needle.
C21_TwoWayLinear ==
    (searcher.impl = "TwoWay" /\ ForwardEnded) =>
        LET e == ForwardEnumeration(fresh(searcher), hay, span0)
        IN  /\ e.matches = fwd_matches
            /\ e.cmps <= 2 * (span0.end - span0.start) + Len(searcher.needle)

\* C21 witness: a forward enumeration with two matches has ended and took more
\* element comparisons than the hay has elements.
C21_Witness ==
    /\ searcher.impl = "TwoWay" /\ ForwardEnded
    /\ Len(fwd_matches) = 2
    /\ ForwardEnumeration(fresh(searcher), hay, span0).cmps > Len(hay)

\* Every iteration of a run reads the hay inside the span r and the needle
\* inside the needle.
ReadsInBounds(run, r) ==
    \A k \in 1..Len(run) :
        /\ run[k].it.hay_reads \subseteq r.start..(r.end - 1)
        /\ run[k].it.needle_reads \subseteq 0..(Len(searcher.needle) - 1)

\* C22: for every span, every non-empty needle and every reachable searcher
\* state, each hay index search or rsearch reads lies in the span, each needle
\* index lies in the needle, and the cursor of rsearch never goes below the
\* span start.
C22_NoOutOfBounds ==
    searcher.impl = "TwoWay" =>
        \A r \in Spans(hk, hay) :
            LET fwd == TwoWay_next_run(searcher, hay, r)
                bwd == TwoWay_next_back_run(searcher, hay, r)
            IN  /\ ReadsInBounds(fwd, r)
                /\ ReadsInBounds(bwd, r)
                /\ \A k \in 1..Len(bwd) :
                       /\ bwd[k].at >= r.start
                       /\ bwd[k].it.position >= r.start

\* C22 witness: a searcher whose reverse memory is left over from earlier
\* calls, and a span starting inside the hay over which rsearch takes two or
\* more iterations and reads the span's first element.
C22_Witness ==
    /\ searcher.impl = "TwoWay" /\ op # "new"
    /\ searcher.memory_back \notin {Len(searcher.needle), usize_MAX}
    /\ \E r \in Spans(hk, hay) :
          LET bwd == TwoWay_next_back_run(searcher, hay, r)
              reads == UNION {bwd[k].it.hay_reads : k \in 1..Len(bwd)}
          IN  /\ r.start > 0
              /\ Len(bwd) >= 2
              /\ r.start \in reads

\* C23: every Two-Way call terminates with a monotone cursor.  In a search
\* call each iteration that does not return increases position by at least
\* one; in an rsearch call each such iteration decreases end by at least one;
\* the last iteration returns what the call returns.
C23_MonotoneCursor ==
    searcher.impl = "TwoWay" =>
        \A r \in Spans(hk, hay) :
            LET fwd == TwoWay_next_run(searcher, hay, r)
                bwd == TwoWay_next_back_run(searcher, hay, r)
            IN  /\ \A k \in 1..Len(fwd) :
                       ~fwd[k].it.returns => fwd[k].it.position >= fwd[k].at + 1
                /\ \A k \in 1..Len(bwd) :
                       ~bwd[k].it.returns => bwd[k].it.position <= bwd[k].at - 1
                /\ LastIter(fwd).returns /\ LastIter(bwd).returns
                /\ LastIter(fwd).out = TwoWay_next(searcher, hay, r).out
                /\ LastIter(bwd).out = TwoWay_next_back(searcher, hay, r).out

\* C23 witness: a searcher used before, and a span over which search takes
\* three iterations or more, one of them advancing by exactly one, and over
\* which rsearch takes three or more as well.
C23_Witness ==
    /\ searcher.impl = "TwoWay" /\ op # "new"
    /\ \E r \in Spans(hk, hay) :
          LET fwd == TwoWay_next_run(searcher, hay, r)
              bwd == TwoWay_next_back_run(searcher, hay, r)
          IN  /\ Len(fwd) >= 3 /\ Len(bwd) >= 3
              /\ \E k \in 1..Len(fwd) :
                    ~fwd[k].it.returns /\ fwd[k].it.position = fwd[k].at + 1

\* The index a run of the default trim loop consumed to last, or none.
LastConsumed(run, none) ==
    IF run[Len(run)].r.some THEN run[Len(run)].r.idx
    ELSE IF Len(run) = 1 THEN none
    ELSE run[Len(run) - 1].r.idx

\* C24: the default trim_start loop stops on None or on no progress and
\* otherwise strictly increases the span start, so it ends after at most one
\* iteration per codeword and returns the last index consumed to, or the
\* start index if the first consume fails; the default trim_end is symmetric.
C24_DefaultTrimTerminates ==
    \A n \in 1..Len(trims) :
        LET h == TrimArg(trims[n])
            whole == [start |-> 0, end |-> Len(h)]
            srun == default_trim_start_run(searcher, hk, h, whole)
            erun == default_trim_end_run(searcher, hk, h, whole)
        IN  /\ \A k \in 1..(Len(srun) - 1) :
                   /\ srun[k].r.some
                   /\ srun[k].r.idx > srun[k].range.start
                   /\ srun[k + 1].range = [start |-> srun[k].r.idx, end |-> Len(h)]
            /\ ~srun[Len(srun)].r.some
                   \/ srun[Len(srun)].r.idx = srun[Len(srun)].range.start
            /\ Len(srun) <= Cardinality(Boundaries(h))
            /\ default_trim_start(searcher, hk, h) = LastConsumed(srun, 0)
            /\ \A k \in 1..(Len(erun) - 1) :
                   /\ erun[k].r.some
                   /\ erun[k].r.idx < erun[k].range.end
                   /\ erun[k + 1].range = [start |-> 0, end |-> erun[k].r.idx]
            /\ ~erun[Len(erun)].r.some
                   \/ erun[Len(erun)].r.idx = erun[Len(erun)].range.end
            /\ Len(erun) <= Cardinality(Boundaries(h))
            /\ default_trim_end(searcher, hk, h) = LastConsumed(erun, Len(h))
            /\ (ElementConsumer /\ trims[n].op = "trim_start")
                  => trims[n].ret = LastConsumed(srun, 0)
            /\ (ElementConsumer /\ trims[n].op = "trim_end")
                  => trims[n].ret = LastConsumed(erun, Len(h))

\* C24 witness: the default trim_start of an element pattern took three
\* iterations over a text hay, consumed two two-byte codewords and stopped on
\* None before the end of the hay.
C24_Witness ==
    /\ ElementConsumer /\ hk = "str"
    /\ Len(trims) = 1 /\ trims[1].op = "trim_start" /\ trims[1].ret = 4
    /\ Len(default_trim_start_run(searcher, hk, hay, span0)) = 3
    /\ range.start < range.end

\* The preprocessed constants of a searcher.
Preprocessed(self) ==
    <<self.needle, self.crit_pos, self.crit_pos_back, self.period, self.byteset>>

\* C25: search never changes the reverse state (consumed_end, memory_back),
\* rsearch never changes the forward state (consumed_start, memory), consume,
\* rconsume, trim_start and trim_end of the EmptySearcher change no state, and
\* no call changes crit_pos, crit_pos_back, period, byteset or needle.
C25_IndependentDirections ==
    [][/\ op' = "search" =>
             /\ searcher'.consumed_end = searcher.consumed_end
             /\ searcher'.memory_back = searcher.memory_back
       /\ op' = "rsearch" =>
             /\ searcher'.consumed_start = searcher.consumed_start
             /\ searcher'.memory = searcher.memory
       /\ op' \in {"consume", "rconsume", "trim_start", "trim_end"} =>
             searcher' = searcher
       /\ Preprocessed(searcher') = Preprocessed(searcher)]_vars

\* C25 witness: a short-period Two-Way searcher after an rsearch, both of whose
\* memories have been moved off their initial values by calls of their own
\* direction.
C25_Witness ==
    /\ searcher.impl = "TwoWay" /\ op = "rsearch"
    /\ searcher.memory \notin {0, usize_MAX}
    /\ searcher.memory_back \notin {Len(searcher.needle), usize_MAX}

\* C26: when one EmptySearcher is driven from both ends in any interleaving
\* until both directions have returned None, the matches returned are exactly
\* the boundaries of the span, each reported once.
C26_BothEndsOnce ==
    phase = "both_done" =>
        LET all == fwd_matches \o rev_matches
        IN  /\ {all[k] : k \in 1..Len(all)}
                   = {Some(b, b) : b \in BoundarySet(span0)}
            /\ Len(all) = Cardinality(BoundarySet(span0))

\* The iterations of a run that take the byteset skip branch.
Skips(run) == {k \in 1..Len(run) : run[k].it.skip}

\* C27: the byteset fast-skip never skips an occurrence.  byteset_contains is
\* true of every needle element, and of every byte that agrees with a needle
\* byte in its low six bits; whenever search takes the skip branch at tail
\* index t no occurrence of the needle covers t; for element types other than
\* bytes the skip branch is never taken.
C27_SkipLosesNoMatch ==
    searcher.impl = "TwoWay" =>
        LET needle == searcher.needle
            n == Len(needle)
            contains(x) == byteset_contains(searcher.elem, searcher.byteset, x)
        IN  /\ \A i \in 0..(n - 1) : contains(at(needle, i))
            /\ searcher.elem = "u8" =>
                  \A x \in 0..255 :
                      (\E i \in 0..(n - 1) : x % 64 = at(needle, i) % 64)
                          => contains(x)
            /\ \A r \in Spans(hk, hay) :
                  LET fwd == TwoWay_next_run(searcher, hay, r)
                  IN  /\ \A k \in Skips(fwd) :
                             LET t == fwd[k].at + n - 1
                             IN  /\ ~\E p \in (t - n + 1)..t : Occurs(hay, needle, p)
                                 /\ fwd[k].it.position = fwd[k].at + n
                      /\ searcher.elem # "u8" => Skips(fwd) = {}

\* C27 witness: a byte searcher used before, and a span over which search
\* takes the skip branch and then returns a match.
C27_Witness ==
    /\ searcher.impl = "TwoWay" /\ searcher.elem = "u8" /\ op # "new"
    /\ \E r \in Spans(hk, hay) :
          LET fwd == TwoWay_next_run(searcher, hay, r)
          IN  /\ Skips(fwd) # {}
              /\ LastIter(fwd).out.some

\* new() classifies the needle as long-period: its critical prefix is not
\* repeated one period on.
IsLongPeriod(kind, needle) ==
    LET cp == max_pair(maximal_suffix(kind, needle, "Less"),
                       maximal_suffix(kind, needle, "Greater"))
    IN  slice(needle, 0, cp[1]) # slice(needle, cp[2], cp[2] + cp[1])

\* C28: the period path is fixed at construction.  After new() and after any
\* sequence of search and rsearch calls, memory is usize::MAX exactly when the
\* needle was classified long-period, and so is memory_back; a short-period
\* searcher only ever holds values up to needle.len() in them.
C28_PeriodPathFixed ==
    searcher.impl = "TwoWay" =>
        LET long == IsLongPeriod(searcher.elem, searcher.needle)
        IN  /\ (searcher.memory = usize_MAX) <=> long
            /\ (searcher.memory_back = usize_MAX) <=> long
            /\ ~long => /\ searcher.memory \in 0..Len(searcher.needle)
                        /\ searcher.memory_back \in 0..Len(searcher.needle)
            /\ \A r \in Spans(hk, hay) :
                  /\ TwoWay_next(searcher, hay, r).out
                         = do_next(long, searcher, hay, r).out
                  /\ TwoWay_next_back(searcher, hay, r).out
                         = do_next_back(long, searcher, hay, r).out

\* C28 witness: a long-period searcher of a needle of two or more elements has
\* returned a match to an rsearch call.
C28_Witness ==
    /\ searcher.impl = "TwoWay" /\ op = "rsearch" /\ out.some
    /\ searcher.memory = usize_MAX
    /\ Len(searcher.needle) >= 2

\* The periods of a sequence and the smallest of them.
IsPeriod(s, p) ==
    /\ p \in 1..Len(s)
    /\ \A i \in 0..(Len(s) - p - 1) : at(s, i) = at(s, i + p)
SmallestPeriod(s) ==
    CHOOSE p \in 1..Len(s) : IsPeriod(s, p) /\ \A q \in 1..(p - 1) : ~IsPeriod(s, q)

\* C29: for a non-empty needle over totally ordered elements, when new() takes
\* the short-period branch the stored period is the needle's smallest period;
\* when it takes the long-period branch the stored period is
\* max(crit_pos, n - crit_pos) + 1, at most n and not larger than the needle's
\* smallest period.
C29_ExactPeriod ==
    (op = "new" /\ TotallyOrdered /\ searcher.impl # "Empty") =>
        LET needle == searcher.needle
            n == Len(needle)
        IN  /\ searcher.impl = "TwoWay"
            /\ IF searcher.memory # usize_MAX
               THEN /\ slice(needle, 0, searcher.crit_pos)
                          = slice(needle, searcher.period,
                                  searcher.period + searcher.crit_pos)
                    /\ searcher.period = SmallestPeriod(needle)
               ELSE /\ searcher.period
                          = Max2(searcher.crit_pos, n - searcher.crit_pos) + 1
                    /\ searcher.period <= n
                    /\ searcher.period <= SmallestPeriod(needle)

\* C29 witness: new() took the long-period branch for a needle of seven
\* elements and stored a period strictly smaller than the needle's smallest
\* period.
C29_Witness ==
    /\ op = "new" /\ TotallyOrdered /\ searcher.impl = "TwoWay"
    /\ Len(searcher.needle) = 7
    /\ searcher.memory = usize_MAX
    /\ searcher.period < SmallestPeriod(searcher.needle)

\* C30: the empty pattern trims nothing and always consumes.  Whatever calls
\* came before, consume returns Some(range.start) and rconsume returns
\* Some(range.end) for the span of the call, trim_start returns the start
\* index of the hay and trim_end its end index, and both trims return what the
\* default consume loop and the default rconsume loop return for the same
\* consumer on the same hay.
C30_EmptyTrimsNothing ==
    searcher.impl = "Empty" =>
        /\ op = "consume" => out = SomeIndex(arg.start)
        /\ op = "rconsume" => out = SomeIndex(arg.end)
        /\ op = "trim_start" =>
               /\ out = 0
               /\ out = default_trim_start(searcher, hk, hay)
        /\ op = "trim_end" =>
               /\ out = Len(hay)
               /\ out = default_trim_end(searcher, hk, hay)

\* C30 witness: trim_start of an EmptySearcher that has already reported a
\* match, on a text that starts with a two-byte scalar.
C30_Witness ==
    /\ searcher.impl = "Empty" /\ searcher.consumed_start
    /\ op = "trim_start" /\ out = 0
    /\ hk = "str" /\ Len(hay) >= 3 /\ hay[1] = 195

\* C31: construction never indexes out of bounds.  For every non-empty needle
\* of length n, every element kind and both orders, maximal_suffix returns
\* (left, period) with left < n, period >= 1 and left + period <= n; so new()
\* does not panic on needle[period..period + crit_pos], the stored crit_pos is
\* below n, and on the short-period branch the stored crit_pos_back, computed
\* as n - max of the two reverse maximal suffixes, satisfies
\* 0 < crit_pos_back <= n.
CritFactor(kind, needle) ==
    max_pair(maximal_suffix(kind, needle, "Less"),
             maximal_suffix(kind, needle, "Greater"))

C31_ConstructionInBounds ==
    LET needle == searcher.needle
        n == Len(needle)
        cf == CritFactor(searcher.elem, needle)
    IN  /\ op \in {"needle", "new"} =>
               \A order \in {"Less", "Greater"} :
                   LET ms == maximal_suffix(searcher.elem, needle, order)
                   IN  /\ ms[1] < n
                       /\ ms[2] >= 1
                       /\ ms[1] + ms[2] <= n
        /\ op = "new" =>
               /\ searcher.impl = "TwoWay"
               /\ searcher.crit_pos = cf[1]
               /\ searcher.crit_pos < n
               /\ cf[2] + searcher.crit_pos <= n
               /\ searcher.memory # usize_MAX =>
                      /\ searcher.crit_pos_back
                            = n - Max2(reverse_maximal_suffix(
                                           searcher.elem, needle, cf[2], "Greater"),
                                       reverse_maximal_suffix(
                                           searcher.elem, needle, cf[2], "Less"))
                      /\ 0 < searcher.crit_pos_back
                      /\ searcher.crit_pos_back <= n

\* C31 witness: new() has built a short-period searcher over ordered elements
\* for a needle of seven elements whose compared slice
\* needle[period..period + crit_pos] ends exactly at the needle's end, with
\* two or more elements before the critical position.
C31_Witness ==
    /\ op = "new" /\ searcher.impl = "TwoWay" /\ searcher.elem = "ord"
    /\ Len(searcher.needle) = 7
    /\ searcher.memory # usize_MAX
    /\ searcher.crit_pos >= 2
    /\ searcher.period + searcher.crit_pos = 7
    /\ searcher.crit_pos_back < 7

\* C32: the memory of a short-period searcher.  After any sequence of search
\* and rsearch calls on a short-period searcher with a needle of n elements,
\* memory is 0 or n - period and memory_back is n or period; memory is 0 right
\* after a search that returned Some, and memory_back is n right after an
\* rsearch that returned Some.
C32_ShortPeriodMemory ==
    (searcher.impl = "TwoWay" /\ searcher.memory # usize_MAX) =>
        LET n == Len(searcher.needle)
        IN  /\ searcher.memory \in {0, n - searcher.period}
            /\ searcher.memory_back \in {n, searcher.period}
            /\ (op = "search" /\ out.some) => searcher.memory = 0
            /\ (op = "rsearch" /\ out.some) => searcher.memory_back = n

\* C32 witness: a search that returned Some on a short-period searcher whose
\* period is smaller than the needle, while the reverse side still remembers
\* a suffix from an earlier rsearch (memory_back = period).
C32_Witness ==
    /\ searcher.impl = "TwoWay" /\ searcher.memory # usize_MAX
    /\ searcher.period < Len(searcher.needle)
    /\ op = "search" /\ out.some
    /\ searcher.memory = 0
    /\ searcher.memory_back = searcher.period

====
